---- MODULE Spec2Model ----
(***************************************************************************)
(* Model of the sampling core of src/app.py (Tunisia Survey Sampling):     *)
(* the SRSWOR branch (lines 135-158) and the stratified branch (lines      *)
(* 216-264).  The population table df is represented by the column the     *)
(* run stratifies on: df[i] is the stratification key of the row with      *)
(* index label i (keys are ordered like the strings groupby sorts; NaN is  *)
(* a missing cell).  A sample is the sequence of index labels of the rows  *)
(* it holds, in the order of the resulting frame.                          *)
(***************************************************************************)
EXTENDS Integers, Sequences, FiniteSets

VARIABLES
    df,            \* the loaded sampling frame (line 65), one key per row
    pc,            \* position of the script run
    method,        \* sidebar choice (line 42): "SRSWOR" or "Stratified"
    n,             \* value of the number_input of the submitted form
    strata,        \* the frame built at line 252: rows (key, Nh, nh)
    sample,        \* line 158
    final_sample,  \* line 264
    error,         \* exception that ended the run, "none" otherwise
    prev           \* history: the run before this one, if it completed on the same inputs

vars == <<df, pc, method, n, strata, sample, final_sample, error, prev>>

\* ------------------------------------------------------------------ bounds
MaxRows == 5            \* rows of a frame whose rows are ordered by key
MaxStrata == 5          \* distinct keys of such a frame
MaxShuffledRows == 4    \* rows of a frame in arbitrary row order
MaxShuffledKeys == 2    \* distinct keys of such a frame

NaN == 0
None == [method |-> "none"]

\* ------------------------------------------------------- sequence helpers
RECURSIVE Sum(_)
Sum(s) == IF s = <<>> THEN 0 ELSE Head(s) + Sum(Tail(s))

Min(S) == CHOOSE x \in S : \A y \in S : x <= y

RECURSIVE SortedSeq(_)
SortedSeq(S) == IF S = {} THEN <<>> ELSE <<Min(S)>> \o SortedSeq(S \ {Min(S)})

RECURSIVE Concat(_)
Concat(ss) == IF ss = <<>> THEN <<>> ELSE Head(ss) \o Concat(Tail(ss))

Range(s) == {s[i] : i \in DOMAIN s}

\* ---------------------------------------------------------------- sampling
\* random_state=42 (lines 158, 261): numpy.random.RandomState(42)
\* .permutation(k) for k = 1..8 (0-based positions), the order from which
\* DataFrame.sample(n, random_state=42) takes its first n entries.
Permutation42 ==
    << <<0>>,
       <<1, 0>>,
       <<0, 1, 2>>,
       <<1, 3, 0, 2>>,
       <<1, 4, 2, 0, 3>>,
       <<0, 1, 5, 2, 4, 3>>,
       <<0, 1, 5, 2, 4, 3, 6>>,
       <<1, 5, 0, 7, 2, 4, 3, 6>> >>

\* No fixed seed: the generator's state moves on from one run to the next,
\* so a run after a completed one draws in another order.
permutation_unseeded(k) ==
    IF pc = "done" \/ prev # None
    THEN [i \in 1..k |-> Permutation42[k][k + 1 - i]]
    ELSE Permutation42[k]

permutation(k) == Permutation42[k]

\* A draw that puts the rows back (replace=True): positions may repeat.
sample_with_replacement(rows, size) ==
    [i \in 1..size |-> rows[permutation(Len(rows))[1] + 1]]

\* rows.sample(n=size, random_state=42): without replacement, the rows at the
\* first `size` positions of the seeded permutation, in that order.
\* Called with 0 <= size <= Len(rows) only (the callers model the ValueError).
DataFrame_sample(rows, size) ==
    [i \in 1..size |-> rows[permutation(Len(rows))[i] + 1]]

\* ------------------------------------------------------------- allocation
\* numpy.round of the quotient num/den (num >= 0, den > 0): nearest integer,
\* a tie to the even one.  n * Nh / N is a float64 quotient of two small
\* integers: it is a tie exactly when the rational is.
\* Rounding with ties away from zero.
round_half_away(num, den) == (2 * num + den) \div (2 * den)

np_round(num, den) ==
    LET q == num \div den
        r == num % den
    IN  IF 2 * r > den \/ (2 * r = den /\ q % 2 = 1) THEN q + 1 ELSE q

\* df.groupby(strat_var).size().reset_index(name='Nh'): one row per key
\* present, sorted by key, NaN keys dropped.
groupby_size(frame) ==
    LET keys == SortedSeq(Range(frame) \ {NaN})
    IN  [i \in 1..Len(keys) |->
            [key |-> keys[i],
             Nh  |-> Cardinality({j \in DOMAIN frame : frame[j] = keys[i]})]]

NhColumn(st) == [i \in 1..Len(st) |-> st[i].Nh]
nhColumn(st) == [i \in 1..Len(st) |-> st[i].nh]

\* Equal allocation: every stratum gets the same share of n.
equal_nh(st, size) ==
    [i \in 1..Len(st) |->
        [key |-> st[i].key, Nh |-> st[i].Nh, nh |-> np_round(size, Len(st))]]

\* line 253: strata['nh'] = np.round(n * strata['Nh'] / strata['Nh'].sum())
proportional_nh(st, size) ==
    [i \in 1..Len(st) |->
        [key |-> st[i].key, Nh |-> st[i].Nh,
         nh  |-> np_round(size * st[i].Nh, Sum(NhColumn(st)))]]

\* line 255
diff(st, size) == size - Sum(nhColumn(st))

\* The residual put on the first stratum instead of the last.
fix_rounding_first(st, size) ==
    [st EXCEPT ![1].nh = @ + diff(st, size)]

\* The residual dropped.
fix_rounding_none(st, size) == st

\* lines 256-257 on a non-empty strata frame: strata.iloc[-1, -1] += diff
fix_rounding(st, size) ==
    IF diff(st, size) # 0
    THEN [st EXCEPT ![Len(st)].nh = @ + diff(st, size)]
    ELSE st

\* The filter on the stratum key left out.
stratum_rows_unfiltered(frame, key) == [i \in 1..Len(frame) |-> i]

\* df[df[strat_var] == key]: the index labels of the stratum, in frame order
stratum_rows(frame, key) ==
    SelectSeq([i \in 1..Len(frame) |-> i], LAMBDA i : frame[i] = key)

all_rows(frame) == [i \in 1..Len(frame) |-> i]

Infeasible(st) == \E i \in DOMAIN st : st[i].nh < 0 \/ st[i].nh > st[i].Nh

\* ------------------------------------------------------------------- Init
IsSorted(t) == \A i \in 1..(Len(t) - 1) : t[i] <= t[i + 1]

SortedFrames ==
    {t \in UNION {[1..k -> 0..MaxStrata] : k \in 0..MaxRows} : IsSorted(t)}

ShuffledFrames ==
    UNION {[1..k -> 0..MaxShuffledKeys] : k \in 0..MaxShuffledRows}

Init ==
    /\ df \in SortedFrames \cup ShuffledFrames
    /\ pc = "idle"
    /\ method = "none"
    /\ n = 0
    /\ strata = <<>>
    /\ sample = <<>>
    /\ final_sample = <<>>
    /\ error = "none"
    /\ prev = None

\* ---------------------------------------------------------------- actions
Ready == pc \in {"idle", "rejected", "done", "error"}

Requests == 0..(MaxRows + 1)

\* what the history keeps when the run (m, req) replaces the one before it:
\* the outputs of that run when it completed and had the same inputs
Remember(m, req) ==
    IF pc = "done" /\ method = m /\ n = req
    THEN [method |-> method, n |-> n, strata |-> strata,
          sample |-> sample, final_sample |-> final_sample]
    ELSE None

\* number_input(min_value=1, max_value=len(df)) of either form (lines
\* 144-149, 223-228): a value outside [1, len(df)] never reaches the script
\* (for an empty frame max_value < min_value and the widget itself fails).
SubmitOutOfRange(m, req) ==
    /\ Ready
    /\ req \notin 1..Len(df)
    /\ pc' = "rejected"
    /\ method' = m
    /\ n' = 0
    /\ strata' = <<>>
    /\ sample' = <<>>
    /\ final_sample' = <<>>
    /\ error' = "none"
    /\ prev' = None
    /\ UNCHANGED df

\* lines 156-158
SubmitSRSWOR(req) ==
    /\ Ready
    /\ req \in 1..Len(df)
    /\ method' = "SRSWOR"
    /\ n' = req
    /\ sample' = DataFrame_sample(all_rows(df), req)
    /\ pc' = "done"
    /\ strata' = <<>>
    /\ final_sample' = <<>>
    /\ error' = "none"
    /\ prev' = Remember("SRSWOR", req)
    /\ UNCHANGED df

\* lines 247-253
SubmitStratified(req) ==
    /\ Ready
    /\ req \in 1..Len(df)
    /\ method' = "Stratified"
    /\ n' = req
    /\ strata' = proportional_nh(groupby_size(df), req)
    /\ pc' = "rounded"
    /\ sample' = <<>>
    /\ final_sample' = <<>>
    /\ error' = "none"
    /\ prev' = Remember("Stratified", req)
    /\ UNCHANGED df

\* lines 255-257
FixRounding ==
    /\ pc = "rounded"
    /\ IF strata = <<>>
       THEN \* diff = n # 0 and iloc[-1, -1] of an empty frame
            /\ pc' = "error"
            /\ error' = "IndexError"
            /\ UNCHANGED strata
       ELSE /\ pc' = "allocated"
            /\ strata' = fix_rounding(strata, n)
            /\ UNCHANGED error
    /\ UNCHANGED <<df, method, n, sample, final_sample, prev>>

\* lines 259-264
DrawStrata ==
    /\ pc = "allocated"
    /\ IF Infeasible(strata)
       THEN \* DataFrame.sample raises ValueError for n < 0 or n > len
            /\ pc' = "error"
            /\ error' = "ValueError"
            /\ UNCHANGED final_sample
       ELSE /\ pc' = "done"
            /\ final_sample' =
                 Concat([i \in 1..Len(strata) |->
                    DataFrame_sample(stratum_rows(df, strata[i].key),
                                     strata[i].nh)])
            /\ UNCHANGED error
    /\ UNCHANGED <<df, method, n, strata, sample, prev>>

Next ==
    \/ \E m \in {"SRSWOR", "Stratified"}, req \in Requests :
          SubmitOutOfRange(m, req)
    \/ \E req \in Requests : SubmitSRSWOR(req)
    \/ \E req \in Requests : SubmitStratified(req)
    \/ FixRounding
    \/ DrawStrata

Spec == Init /\ [][Next]_vars

\* ----------------------------------------------------------------- claims
Stratified == method = "Stratified"

\* the strata frame holds the corrected allocation
Allocated ==
    /\ Stratified
    /\ pc \in {"allocated", "done"} \/ (pc = "error" /\ error = "ValueError")

SumNh == Sum(NhColumn(strata))
Sumnh == Sum(nhColumn(strata))

Distinct(s) == Cardinality(Range(s)) = Len(s)

Abs(x) == IF x < 0 THEN -x ELSE x

\* C1: once the residual correction has run, the nh of the allocation table
\* sum to the requested n exactly.
C1_SumExact == Allocated => Sumnh = n

\* C1 witness: a valid run over three strata whose rounded shares summed to
\* more than n, corrected.
C1_Witness ==
    /\ Stratified /\ pc = "allocated" /\ n <= SumNh /\ Len(strata) >= 3
    /\ Sum(nhColumn(proportional_nh(groupby_size(df), n))) > n

\* C2: for n <= sum(Nh), every stratum of the corrected allocation table has
\* 0 <= nh <= Nh.
C2_WithinStratum ==
    (Allocated /\ n \in 1..SumNh) =>
        \A i \in DOMAIN strata : 0 <= strata[i].nh /\ strata[i].nh <= strata[i].Nh

\* C3: a run (here with a valid n <= sum(Nh)) whose corrected allocation has
\* a stratum with nh < 0 or nh > Nh ends in an InfeasibleAllocation error,
\* not in the draw's error and not in a completed run.
C3_InfeasibleReported ==
    (Stratified /\ pc \in {"done", "error"} /\ n \in 1..SumNh
        /\ Infeasible(strata)) =>
        (pc = "error" /\ error = "InfeasibleAllocation")

\* C4: a completed stratified run holds, for every stratum of the allocation
\* table, exactly nh rows of that stratum's key; the sampled rows are rows
\* of the frame, pairwise distinct, and sum(nh) in number.
C4_StratumDraws ==
    (Stratified /\ pc = "done") =>
        /\ \A i \in DOMAIN strata :
              Cardinality({j \in DOMAIN final_sample :
                              df[final_sample[j]] = strata[i].key}) = strata[i].nh
        /\ Range(final_sample) \subseteq DOMAIN df
        /\ Distinct(final_sample)
        /\ Len(final_sample) = Sumnh

\* C4 witness: a completed run on a frame whose rows are not ordered by key,
\* drawing from two strata.
C4_Witness ==
    /\ Stratified /\ pc = "done" /\ ~IsSorted(df)
    /\ Cardinality({i \in DOMAIN strata : strata[i].nh >= 1}) >= 2

\* C5: a simple random sample holds exactly n pairwise distinct rows of the
\* frame, and the draw leaves the frame as it was.
C5_SimpleRandomSample ==
    /\ []((method = "SRSWOR" /\ pc = "done") =>
            /\ Len(sample) = n
            /\ n \in 1..Len(df)
            /\ Distinct(sample)
            /\ Range(sample) \subseteq DOMAIN df)
    /\ [][(method' = "SRSWOR" /\ pc' = "done") => df' = df]_vars

\* C5 witness: a proper subset of at least two rows was drawn.
C5_Witness ==
    method = "SRSWOR" /\ pc = "done" /\ Len(sample) >= 2 /\ Len(sample) < Len(df)

\* C6: no stratified run gets to the allocation with n outside
\* [1, sum(Nh)], the Nh being those of the strata the run formed.
C6_RangeChecked ==
    (Stratified /\ pc \in {"rounded", "allocated", "done", "error"}) =>
        n \in 1..SumNh

\* C7: with n = N = sum(Nh) every stratum gets nh = Nh, the residual is 0,
\* and the completed run's sample is the whole frame.
C7_Census ==
    (Stratified /\ pc \in {"rounded", "allocated", "done", "error"}
        /\ n = Len(df) /\ n = SumNh) =>
        /\ \A i \in DOMAIN strata : strata[i].nh = strata[i].Nh
        /\ pc = "rounded" => diff(strata, n) = 0
        /\ pc # "error"
        /\ pc = "done" =>
              Range(final_sample) = DOMAIN df /\ Len(final_sample) = Len(df)

\* C7 witness: a completed census over strata of different sizes.
C7_Witness ==
    /\ Stratified /\ pc = "done" /\ n = Len(df) /\ n = SumNh
    /\ \E i, j \in DOMAIN strata : strata[i].Nh # strata[j].Nh

\* the stratum keys of the sampled rows, stratum after stratum
GroupedKeys ==
    Concat([i \in 1..Len(strata) |-> [j \in 1..strata[i].nh |-> strata[i].key]])

C8_WitnessSRS ==
    pc = "done" /\ prev # None /\ method = "SRSWOR" /\ Len(sample) >= 2

\* C9 as stated: before the correction every nh is the share n*Nh/N rounded
\* to nearest with a tie away from zero, floor((2*n*Nh + N) / (2*N)).
C9_TiesAwayFromZero ==
    (Stratified /\ pc = "rounded") =>
        \A i \in DOMAIN strata :
            strata[i].nh = (2 * n * strata[i].Nh + SumNh) \div (2 * SumNh)

\* C9 amended: before the correction every nh is an integer nearest to the
\* share n*Nh/N, and the even one of the two when the share lies halfway.
C9_TiesToEven ==
    (Stratified /\ pc = "rounded") =>
        \A i \in DOMAIN strata :
            LET twice == 2 * Abs(strata[i].nh * SumNh - n * strata[i].Nh)
            IN  /\ twice <= SumNh
                /\ twice = SumNh => strata[i].nh % 2 = 0

\* C9 witness: a share that lies halfway between two integers, with n <= N.
C9_Witness ==
    /\ Stratified /\ pc = "rounded" /\ n <= SumNh
    /\ \E i \in DOMAIN strata : 2 * ((n * strata[i].Nh) % SumNh) = SumNh

Scenario(counts) == [i \in 1..Len(counts) |-> [key |-> i, Nh |-> counts[i]]]

Allocation(counts, size) ==
    nhColumn(fix_rounding(proportional_nh(Scenario(counts), size), size))

\* C10: the correction adds n - sum(nh) to the nh of the last stratum and
\* changes nothing else; with a residual of 0 the table is left as it is.
\* {333, 333, 334} with n = 100 gives {33, 33, 34}; {600, 300, 100} gives
\* {60, 30, 10}.
C10_ResidualToLast ==
    /\ [][(pc = "rounded" /\ pc' = "allocated") =>
            LET last == Len(strata)
                residual == n - Sumnh
            IN  /\ Len(strata') = last
                /\ \A i \in 1..(last - 1) : strata'[i] = strata[i]
                /\ strata'[last] =
                     [strata[last] EXCEPT !.nh = strata[last].nh + residual]
                /\ residual = 0 => strata' = strata]_vars
    /\ [](/\ Allocation(<<333, 333, 334>>, 100) = <<33, 33, 34>>
          /\ Allocation(<<600, 300, 100>>, 100) = <<60, 30, 10>>)

\* C10 witness: a corrected table of three strata whose rounded shares fell
\* short of n.
C10_Witness ==
    /\ Stratified /\ pc = "allocated" /\ Len(strata) >= 3
    /\ Sum(nhColumn(proportional_nh(groupby_size(df), n))) < n

====
